---- MODULE Spec2Model ----
(***************************************************************************)
(* react-cmp-selector: getCmpByAttr (src/src/GetCmpByAttr.tsx).            *)
(*                                                                         *)
(* The hook is modelled over a heap of JavaScript objects: useMemo compares *)
(* its dependencies by identity, the default props = {} is a new object on *)
(* every call, and toArray and cloneElement allocate new elements.         *)
(* Caller-owned objects (children, elements, extra props) are never        *)
(* written by the caller between invocations, as React requires of props.  *)
(***************************************************************************)
EXTENDS Integers, Sequences, FiniteSets, TLC

VARIABLES
    heap,      \* object id -> object (element, plain object, array)
    args,      \* the argument object of the current / last invocation
    prev,      \* the argument object of the invocation before it
    memo,      \* the useMemo cell of this call site in the rendering context
    ret,       \* value returned by the last invocation
    console,   \* entries written to the console during the last invocation
    computed,  \* whether the last invocation ran the useMemo callback
    threw,     \* whether the last invocation ended by throwing
    phase      \* "pending": arguments chosen, call not made; "returned"

vars == <<heap, args, prev, memo, ret, console, computed, threw, phase>>

\* Longest top-level children array enumerated.
MaxLen == 2

----------------------------------------------------------------------------
\* JavaScript values.  Primitives carry their type, so that === is equality
\* of tagged values; an object value is a reference into the heap.

Undefined == [t |-> "undefined"]
Null == [t |-> "null"]
Str(s) == [t |-> "string", s |-> s]
Num(n) == [t |-> "number", n |-> n]
Bool(b) == [t |-> "boolean", b |-> b]
Ref(i) == [t |-> "object", ref |-> i]

\* Heap objects.
Element(type, key, props) ==
    [kind |-> "element", type |-> type, key |-> key, props |-> props]
Object(map) == [kind |-> "object", map |-> map]
Array(items) == [kind |-> "array", items |-> items]

NoProps == [k \in {} |-> Undefined]

\* The key React.Children.toArray gives a child: the path of indices to it,
\* the last component being the child's own key when it has one.
Key(path) == [t |-> "key", path |-> path]

NoMemo == [t |-> "nomemo"]
NoArgs == [t |-> "noargs"]
NotCalled == [t |-> "notcalled"]

----------------------------------------------------------------------------
\* The caller's objects.

ChildrenRef == Ref(8)

PoolHeap ==
    (1 :> Element("div", Null, "data-slot" :> Str("header")))
    @@ (2 :> Element("span", Str("s"),
                     ("data-slot" :> Str("header")) @@ ("className" :> Str("header"))))
    @@ (3 :> Element("section", Null, "data-slot" :> Str("")))
    @@ (4 :> Element("p", Null, "data-slot" :> Num(0)))
    @@ (5 :> Array(<<Null, Ref(1)>>))
    @@ (6 :> Object("className" :> Str("x")))
    @@ (7 :> Object(("data-slot" :> Str("body")) @@ ("title" :> Str("t"))))
    @@ (8 :> Array(<<Str("header"), Ref(2), Ref(1)>>))
    @@ (9 :> Array(<<Ref(1), Ref(3)>>))
    @@ (10 :> Array(<<Ref(1), Ref(3)>>))

\* What a children array may hold: elements, a nested array, and the
\* non-element nodes (string, number, null, boolean).
PoolValues ==
    {Ref(1), Ref(2), Ref(3), Ref(4), Ref(5),
     Str("header"), Num(0), Null, Bool(TRUE)}

ChildSeqs == UNION {[1..k -> PoolValues] : k \in 0..MaxLen}

AttrArgs == {Undefined, Str("className")}
ValueArgs == {Undefined, Str("header"), Str("head")}
PropsArgs == {Undefined, Ref(6), Ref(7)}
DebugArgs == {Undefined, Bool(TRUE), Bool(FALSE)}

\* Children a re-rendering parent passes: two arrays that differ, two that
\* are equal but distinct objects, and a bare string.
MemoChildren == {ChildrenRef, Ref(9), Ref(10), Str("header")}

----------------------------------------------------------------------------
\* Allocation.  A new object gets an id no live object has.

FreeId(h) ==
    CHOOSE i \in 1..(Cardinality(DOMAIN h) + 1) :
        i \notin DOMAIN h /\ \A j \in 1..(i - 1) : j \in DOMAIN h

\* Objects still referenced after a call: the caller's, and those the memo
\* cell and the returned value point to.
RefIds(vals) == {v.ref : v \in {w \in vals : w.t = "object"}}

Collect(h, keep) == [i \in (DOMAIN h) \cap keep |-> h[i]]

----------------------------------------------------------------------------
\* React primitives used by the hook.

isValidElement(h, v) == v.t = "object" /\ h[v.ref].kind = "element"

isArray(h, v) == v.t = "object" /\ h[v.ref].kind = "array"

\* getElementKey: the child's own key if it has one, else its index.
getElementKey(h, child, index) ==
    IF isValidElement(h, child) /\ h[child.ref].key # Null
    THEN h[child.ref].key
    ELSE Num(index)

\* The traversal of React.Children.toArray: arrays are flattened, null,
\* undefined and booleans are dropped, every other node is kept with the
\* path that names it.
RECURSIVE mapIntoArray(_, _, _)
RECURSIVE mapItems(_, _, _, _)
mapIntoArray(h, v, path) ==
    IF v.t \in {"undefined", "null", "boolean"} THEN <<>>
    ELSE IF isArray(h, v) THEN mapItems(h, h[v.ref].items, path, 1)
    ELSE <<[v |-> v,
            path |-> IF path = <<>> THEN <<getElementKey(h, v, 0)>> ELSE path]>>

mapItems(h, items, path, i) ==
    IF i > Len(items) THEN <<>>
    ELSE mapIntoArray(h, items[i], Append(path, getElementKey(h, items[i], i - 1)))
         \o mapItems(h, items, path, i + 1)

\* cloneAndReplaceKey for each element the traversal kept.
RECURSIVE cloneAndReplaceKey(_, _)
cloneAndReplaceKey(h, entries) ==
    IF entries = <<>> THEN [heap |-> h, items |-> <<>>]
    ELSE LET e == Head(entries) IN
         IF isValidElement(h, e.v)
         THEN LET id == FreeId(h)
                  h2 == h @@ (id :> [h[e.v.ref] EXCEPT !.key = Key(e.path)])
                  rest == cloneAndReplaceKey(h2, Tail(entries))
              IN [heap |-> rest.heap, items |-> <<Ref(id)>> \o rest.items]
         ELSE LET rest == cloneAndReplaceKey(h, Tail(entries))
              IN [heap |-> rest.heap, items |-> <<e.v>> \o rest.items]

toArray(h, children) == cloneAndReplaceKey(h, mapIntoArray(h, children, <<>>))

\* Fault: a == b, which coerces a number and a string before comparing.
LooseEquals(a, b) ==
    \/ a = b
    \/ a.t = "number" /\ b.t = "string" /\ a.n = 0 /\ b.s = ""
    \/ a.t = "string" /\ b.t = "number" /\ b.n = 0 /\ a.s = ""

\* a === b on tagged values and references.
StrictEquals(a, b) == a = b

\* cmp.props of any value: only elements have one.
PropsOf(h, cmp) ==
    IF isValidElement(h, cmp) THEN h[cmp.ref].props ELSE Undefined

\* p[attr] === value; indexing undefined throws a TypeError.
TestProp(p, attr, value) ==
    IF p = Undefined THEN "throw"
    ELSE IF StrictEquals(IF attr.s \in DOMAIN p THEN p[attr.s] ELSE Undefined, value)
    THEN "true"
    ELSE "false"

\* Fault: the predicate without its isValidElement guard.
FindCallbackUnguarded(h, cmp, attr, value) ==
    TestProp(PropsOf(h, cmp), attr, value)

\* The predicate given to find: isValidElement(cmp) && cmp.props[attr] === value
FindCallback(h, cmp, attr, value) ==
    IF ~isValidElement(h, cmp) THEN "false"
    ELSE TestProp(PropsOf(h, cmp), attr, value)

\* Fault: the last item the predicate accepts (findLast).
RECURSIVE findLast(_, _, _, _)
findLast(h, items, attr, value) ==
    IF items = <<>> THEN [threw |-> FALSE, found |-> Undefined]
    ELSE LET r == FindCallback(h, Head(items), attr, value)
             rest == findLast(h, Tail(items), attr, value)
         IN IF r = "throw" THEN [threw |-> TRUE, found |-> Undefined]
            ELSE IF rest.threw \/ rest.found # Undefined THEN rest
            ELSE IF r = "true" THEN [threw |-> FALSE, found |-> Head(items)]
            ELSE rest

\* Array.prototype.find: the first item the predicate accepts, or undefined.
RECURSIVE find(_, _, _, _)
find(h, items, attr, value) ==
    IF items = <<>> THEN [threw |-> FALSE, found |-> Undefined]
    ELSE LET r == FindCallback(h, Head(items), attr, value) IN
         IF r = "throw" THEN [threw |-> TRUE, found |-> Undefined]
         ELSE IF r = "true" THEN [threw |-> FALSE, found |-> Head(items)]
         ELSE find(h, Tail(items), attr, value)

\* Fault: the element's own props win over config's.
cloneElementKeepOld(h, element, config) ==
    LET old == h[element.ref].props
        cfg == h[config.ref].map
        id == FreeId(h)
        props == [k \in (DOMAIN old) \cup (DOMAIN cfg) |->
                     IF k \in DOMAIN old THEN old[k] ELSE cfg[k]]
    IN [heap |-> h @@ (id :> [h[element.ref] EXCEPT !.props = props]),
        el |-> Ref(id)]

\* Fault: the merge is written into the config object, which becomes the
\* props of the new element.
cloneElementIntoConfig(h, element, config) ==
    LET old == h[element.ref].props
        cfg == h[config.ref].map
        id == FreeId(h)
        props == [k \in (DOMAIN old) \cup (DOMAIN cfg) |->
                     IF k \in DOMAIN cfg THEN cfg[k] ELSE old[k]]
        h2 == [h EXCEPT ![config.ref].map = props]
    IN [heap |-> h2 @@ (id :> [h[element.ref] EXCEPT !.props = props]),
        el |-> Ref(id)]

\* Fault: config replaces the element's props instead of overriding them.
cloneElementConfigOnly(h, element, config) ==
    LET id == FreeId(h)
    IN [heap |-> h @@ (id :> [h[element.ref] EXCEPT !.props = h[config.ref].map]),
        el |-> Ref(id)]

\* cloneElement(element, config): a new element whose props are the
\* element's, overridden by config's.
cloneElement(h, element, config) ==
    LET old == h[element.ref].props
        cfg == h[config.ref].map
        id == FreeId(h)
        props == [k \in (DOMAIN old) \cup (DOMAIN cfg) |->
                     IF k \in DOMAIN cfg THEN cfg[k] ELSE old[k]]
    IN [heap |-> h @@ (id :> [h[element.ref] EXCEPT !.props = props]),
        el |-> Ref(id)]

----------------------------------------------------------------------------
\* getCmpByAttr.

\* Defaults of the destructured parameters.
attrOf(a) == IF a.attr = Undefined THEN Str("data-slot") ELSE a.attr
valueOf(a) == IF a.value = Undefined THEN Str("") ELSE a.value
debugOf(a) == IF a.debug = Undefined THEN Bool(FALSE) ELSE a.debug

\* Fault: the warning is written whether or not debug is set.
callbackWarnAlways(h, children, attr, value, props, debug) ==
    LET componentsArray == toArray(h, children)
        matchedComponent ==
            find(componentsArray.heap, componentsArray.items, attr, value)
    IN IF matchedComponent.threw
       THEN [heap |-> componentsArray.heap, threw |-> TRUE, ret |-> Undefined,
             console |-> <<>>]
       ELSE IF matchedComponent.found # Undefined
       THEN LET c == cloneElement(componentsArray.heap, matchedComponent.found, props)
            IN [heap |-> c.heap, threw |-> FALSE, ret |-> c.el,
                console |->
                    IF debug.b
                    THEN <<[level |-> "log",
                            text |-> "Found component with matching props:",
                            node |-> componentsArray.heap[matchedComponent.found.ref]]>>
                    ELSE <<>>]
       ELSE [heap |-> componentsArray.heap, threw |-> FALSE, ret |-> Null,
             console |-> <<[level |-> "warn", text |-> "No component found with",
                            attr |-> attr, value |-> value]>>]

\* Fault: under debug the matched component is returned as found, not cloned.
callbackDebugSkipsClone(h, children, attr, value, props, debug) ==
    LET componentsArray == toArray(h, children)
        matchedComponent ==
            find(componentsArray.heap, componentsArray.items, attr, value)
    IN IF matchedComponent.threw
       THEN [heap |-> componentsArray.heap, threw |-> TRUE, ret |-> Undefined,
             console |-> <<>>]
       ELSE IF matchedComponent.found # Undefined
       THEN IF debug.b
            THEN [heap |-> componentsArray.heap, threw |-> FALSE,
                  ret |-> matchedComponent.found,
                  console |->
                      <<[level |-> "log",
                         text |-> "Found component with matching props:",
                         node |-> componentsArray.heap[matchedComponent.found.ref]]>>]
            ELSE LET c == cloneElement(componentsArray.heap, matchedComponent.found, props)
                 IN [heap |-> c.heap, threw |-> FALSE, ret |-> c.el, console |-> <<>>]
       ELSE [heap |-> componentsArray.heap, threw |-> FALSE, ret |-> Null,
             console |->
                 IF debug.b
                 THEN <<[level |-> "warn", text |-> "No component found with",
                         attr |-> attr, value |-> value]>>
                 ELSE <<>>]

\* The function given to useMemo.
callback(h, children, attr, value, props, debug) ==
    LET componentsArray == toArray(h, children)
        matchedComponent ==
            find(componentsArray.heap, componentsArray.items, attr, value)
    IN IF matchedComponent.threw
       THEN [heap |-> componentsArray.heap, threw |-> TRUE, ret |-> Undefined,
             console |-> <<>>]
       ELSE IF matchedComponent.found # Undefined
       THEN LET c == cloneElement(componentsArray.heap, matchedComponent.found, props)
            IN [heap |-> c.heap, threw |-> FALSE, ret |-> c.el,
                console |->
                    IF debug.b
                    THEN <<[level |-> "log",
                            text |-> "Found component with matching props:",
                            node |-> componentsArray.heap[matchedComponent.found.ref]]>>
                    ELSE <<>>]
       ELSE [heap |-> componentsArray.heap, threw |-> FALSE, ret |-> Null,
             console |->
                 IF debug.b
                 THEN <<[level |-> "warn", text |-> "No component found with",
                         attr |-> attr, value |-> value]>>
                 ELSE <<>>]

\* Fault: value is missing from the dependency list.
areHookInputsEqualButValue(next, old) ==
    \A i \in (1..Len(next)) \ {3} : next[i] = old[i]

\* Object.is on each dependency.
areHookInputsEqual(next, old) ==
    \A i \in 1..Len(next) : next[i] = old[i]

\* useMemo(callback, [children, attr, value, props, debug]).
useMemo(h, m, deps) ==
    IF m # NoMemo /\ areHookInputsEqual(deps, m.deps)
    THEN [heap |-> h, memo |-> m, ret |-> m.value, threw |-> FALSE,
          console |-> <<>>, computed |-> FALSE]
    ELSE LET r == callback(h, deps[1], deps[2], deps[3], deps[4], deps[5]) IN
         [heap |-> r.heap,
          memo |-> IF r.threw THEN m ELSE [deps |-> deps, value |-> r.ret],
          ret |-> r.ret, threw |-> r.threw, console |-> r.console,
          computed |-> TRUE]

\* One invocation of the hook with the pending arguments.
getCmpByAttr ==
    /\ phase = "pending"
    /\ LET fresh == FreeId(heap)
           h1 == IF args.props = Undefined
                 THEN heap @@ (fresh :> Object(NoProps))
                 ELSE heap
           props == IF args.props = Undefined THEN Ref(fresh) ELSE args.props
           deps == <<args.children, attrOf(args), valueOf(args), props, debugOf(args)>>
           r == useMemo(h1, memo, deps)
           live == (DOMAIN PoolHeap)
                   \cup RefIds({r.ret})
                   \cup (IF r.memo = NoMemo THEN {}
                         ELSE RefIds({r.memo.value} \cup {r.memo.deps[i] : i \in 1..5}))
       IN /\ heap' = Collect(r.heap, live)
          /\ memo' = r.memo
          /\ ret' = r.ret
          /\ threw' = r.threw
          /\ console' = r.console
          /\ computed' = r.computed
    /\ phase' = "returned"
    /\ UNCHANGED <<args, prev>>

\* The component renders again and calls the hook with arguments of the
\* caller's choosing.
Rerender ==
    /\ phase = "returned"
    /\ \E a \in [children : MemoChildren, attr : AttrArgs,
                 value : {Undefined, Str("header")},
                 props : PropsArgs, debug : {Undefined, Bool(TRUE)}] :
           args' = a
    /\ prev' = args
    /\ phase' = "pending"
    /\ UNCHANGED <<heap, memo, ret, console, computed, threw>>

Fresh ==
    /\ prev = NoArgs
    /\ memo = NoMemo
    /\ ret = NotCalled
    /\ console = <<>>
    /\ computed = FALSE
    /\ threw = FALSE
    /\ phase = "pending"

\* A first render, over every children array up to MaxLen and every way of
\* passing or omitting the optional arguments.
InitCall ==
    /\ \E items \in ChildSeqs :
           heap = [PoolHeap EXCEPT ![ChildrenRef.ref] = Array(items)]
    /\ args \in [children : IF heap[ChildrenRef.ref].items = <<>>
                            THEN {ChildrenRef, Undefined} \cup PoolValues
                            ELSE {ChildrenRef},
                 attr : AttrArgs, value : ValueArgs,
                 props : PropsArgs, debug : DebugArgs]
    /\ Fresh

NextCall == getCmpByAttr

SpecCall == InitCall /\ [][NextCall]_vars

\* A rendering context: the first render, then any sequence of re-renders.
Init ==
    /\ heap = PoolHeap
    /\ args \in [children : MemoChildren, attr : AttrArgs,
                 value : {Undefined, Str("header")},
                 props : PropsArgs, debug : {Undefined, Bool(TRUE)}]
    /\ Fresh

Next == getCmpByAttr \/ Rerender

Spec == Init /\ [][Next]_vars

----------------------------------------------------------------------------
\* What the claims speak of, stated over the caller's arguments alone.

\* The children in declaration order, nested arrays opened, nothing dropped.
RECURSIVE Leaves(_, _)
RECURSIVE LeavesFrom(_, _, _)
Leaves(h, v) ==
    IF v.t = "object" /\ h[v.ref].kind = "array"
    THEN LeavesFrom(h, h[v.ref].items, 1)
    ELSE <<v>>

LeavesFrom(h, items, i) ==
    IF i > Len(items) THEN <<>>
    ELSE Leaves(h, items[i]) \o LeavesFrom(h, items, i + 1)

PropAt(p, k) == IF k \in DOMAIN p THEN p[k] ELSE Undefined

\* A child matches: a valid element whose props hold attr with exactly value.
Matches(h, v, a) ==
    /\ v.t = "object"
    /\ h[v.ref].kind = "element"
    /\ attrOf(a).s \in DOMAIN h[v.ref].props
    /\ h[v.ref].props[attrOf(a).s] = valueOf(a)

Declared == Leaves(heap, args.children)

MatchAt == {i \in 1..Len(Declared) : Matches(heap, Declared[i], args)}

FirstMatch == Declared[CHOOSE i \in MatchAt : \A j \in MatchAt : i <= j]

ExtraProps == IF args.props = Undefined THEN NoProps ELSE heap[args.props.ref].map

Returned == phase = "returned"

IsElement(v) == v.t = "object"

\* An element as its type and props, any other value as itself.
Shape(h, v) ==
    IF v.t = "object"
    THEN [type |-> h[v.ref].type, props |-> h[v.ref].props]
    ELSE v

\* The clone-with-overrides of the first match, or the empty result.
Expected ==
    IF MatchAt = {} THEN Null
    ELSE LET old == heap[FirstMatch.ref].props IN
         [type |-> heap[FirstMatch.ref].type,
          props |-> [k \in (DOMAIN old) \cup (DOMAIN ExtraProps) |->
                        IF k \in DOMAIN ExtraProps THEN ExtraProps[k] ELSE old[k]]]

\* The returned element was made from this child: same type, and the
\* child's props wherever the extra props say nothing.
MadeFrom(child) ==
    /\ IsElement(ret)
    /\ heap[ret.ref].type = heap[child.ref].type
    /\ \A k \in (DOMAIN heap[child.ref].props) \ (DOMAIN ExtraProps) :
           PropAt(heap[ret.ref].props, k) = heap[child.ref].props[k]

----------------------------------------------------------------------------
\* C1: when two or more children match, the result is the clone of the match
\* that comes first in declaration order, never of a later one.
C1_FirstMatchWins ==
    (Returned /\ Cardinality(MatchAt) >= 2) =>
        /\ MadeFrom(FirstMatch)
        /\ \A j \in MatchAt : Declared[j] # FirstMatch => ~MadeFrom(Declared[j])

C1_Witness ==
    /\ Returned
    /\ \E j \in MatchAt : Declared[j] # FirstMatch
    /\ IsElement(ret)

\* C2: with no matching child (the empty sequence included) the call returns
\* null normally and throws nothing, whatever attr, value, props and debug.
C2_NoMatchIsNull ==
    (Returned /\ MatchAt = {}) => (ret = Null /\ ~threw)

C2_Witness ==
    /\ Returned
    /\ MatchAt = {}
    /\ \E i \in 1..Len(Declared) : Declared[i].t = "string"
    /\ \E i \in 1..Len(Declared) : IsElement(Declared[i])
    /\ debugOf(args).b
    /\ ret = Null

C4_MatchIffStrict ==
    Returned =>
        /\ IsElement(ret) <=> (\E i \in 1..Len(Declared) : Matches(heap, Declared[i], args))
        /\ (\A i \in 1..Len(Declared) : ~isValidElement(heap, Declared[i])) => ret = Null

C4_Witness ==
    /\ Returned
    /\ args.value = Undefined
    /\ \E i \in 1..Len(Declared) : Declared[i] = Ref(4)
    /\ \E i \in 1..Len(Declared) : Declared[i] = Str("header")
    /\ ret = Null

\* C5: a call leaves every object that existed before it as it was (the
\* children array, each child, the extra props) and the argument object too,
\* and an element it returns is an object that did not exist before.
C5_InputsUntouched ==
    [][(phase = "pending" /\ phase' = "returned") =>
          /\ args' = args
          /\ \A id \in DOMAIN heap : id \in DOMAIN heap' /\ heap'[id] = heap[id]
          /\ IsElement(ret') => ret'.ref \notin DOMAIN heap]_vars

C5_Witness ==
    /\ Returned
    /\ IsElement(ret)
    /\ args.props # Undefined
    /\ ret # FirstMatch
    /\ \A id \in DOMAIN PoolHeap \ {ChildrenRef.ref} : heap[id] = PoolHeap[id]

\* C6 as stated: every invocation writes to the console exactly when debug
\* is true.
C6_LogIffDebug ==
    Returned => ((console # <<>>) <=> debugOf(args).b)

\* C6 amended: an invocation writes to the console exactly when debug is
\* true and the invocation recomputes; the entry is a log of the matched
\* node when there is a match, a warning naming attr and value when not.
C6_LogIffDebugAndComputed ==
    Returned =>
        /\ (console # <<>>) <=> (debugOf(args).b /\ computed)
        /\ console # <<>> =>
               /\ Len(console) = 1
               /\ IF MatchAt = {}
                  THEN /\ console[1].level = "warn"
                       /\ console[1].attr = attrOf(args)
                       /\ console[1].value = valueOf(args)
                  ELSE /\ console[1].level = "log"
                       /\ console[1].node.type = heap[FirstMatch.ref].type
                       /\ console[1].node.props = heap[FirstMatch.ref].props

C6_Witness ==
    /\ Returned
    /\ debugOf(args).b
    /\ ~computed
    /\ console = <<>>

\* C7: the result does not depend on debug: the same call with the flag
\* flipped yields an equal result (both null, or the same type and props).
C7_DebugBlind ==
    Returned =>
        LET other == callback(heap, memo.deps[1], memo.deps[2], memo.deps[3],
                              memo.deps[4], Bool(~debugOf(args).b))
        IN Shape(heap, ret) = Shape(other.heap, other.ret)

C7_Witness ==
    /\ Returned
    /\ debugOf(args).b
    /\ IsElement(ret)
    /\ ExtraProps # NoProps

\* C8: an invocation recomputes only if the caller changed one of children,
\* attr, value, props or debug since the previous invocation; repeating the
\* same arguments, props left out included, is served from the cache.
C8_RecomputeOnlyOnChange ==
    (Returned /\ prev # NoArgs /\ computed) => args # prev

\* C9: whatever the sequence of invocations, each returns what a plain scan
\* and clone over its own arguments would return.
C9_CacheIsTransparent ==
    Returned => (~threw /\ Shape(heap, ret) = Expected)

C9_Witness ==
    /\ Returned
    /\ ~computed
    /\ prev # NoArgs
    /\ IsElement(ret)

\* C10: unless the extra props name attr themselves, the returned element
\* still carries attr with exactly the value sought.
C10_MarkerSurvives ==
    (Returned /\ IsElement(ret) /\ attrOf(args).s \notin DOMAIN ExtraProps) =>
        PropAt(heap[ret.ref].props, attrOf(args).s) = valueOf(args)

C10_Witness ==
    /\ Returned
    /\ IsElement(ret)
    /\ attrOf(args).s \notin DOMAIN ExtraProps
    /\ ExtraProps # NoProps

====
